---- MODULE Spec2Model ----
(***************************************************************************)
(* Model of the tga_web front-end: URL normalizer, run repository,         *)
(* analysis service (external program launch, retry, result) and the web   *)
(* routes POST /run and GET /download.                                     *)
(*                                                                         *)
(* Text is modelled as a sequence of one-character strings, so that        *)
(* strip(), lower(), startswith(), "in" and split() are computed on the    *)
(* characters as the Python code computes them.                            *)
(***************************************************************************)
EXTENDS Integers, Sequences, FiniteSets, TLC

VARIABLES
    url_cfg,    \* GuessComUrlNormalizer fields (default_scheme, guess_com_if_no_dot, no_guess_hosts)
    fs,         \* the filesystem: reports_base and exe_dir listings
    clock,      \* wall clock in whole seconds (what strftime and int(total_seconds()) keep)
    pc,         \* position of the request being handled
    req,        \* locals of AnalysisService.run for the call in progress
    cmds,       \* command lines launched by the current (or last) call of AnalysisService.run
    proc,       \* what the latest launch ended with (CompletedProcess, timeout, launch failure)
    scans,      \* number of find_newest_run_dir() calls made by the current (or last) call
    outcome,    \* how the last call of AnalysisService.run ended (result or raised error)
    resp,       \* the HTTP response to the last request
    runs,       \* routes.py: runs: Dict[str, Path], a function from run_id to run directory
    ini         \* the INI file on disk: "ok", or "missing" (absent or unreadable)

vars == <<url_cfg, fs, clock, pc, req, cmds, proc, scans, outcome, resp, runs, ini>>

------------------------------------------------------------------------------
(* Text helpers: Python str methods on character sequences.                *)

UpperChars == <<"A","B","C","D","E","F","G","H","I","J","K","L","M",
                "N","O","P","Q","R","S","T","U","V","W","X","Y","Z">>
LowerChars == <<"a","b","c","d","e","f","g","h","i","j","k","l","m",
                "n","o","p","q","r","s","t","u","v","w","x","y","z">>

\* str.lower() on one character
LowerChar(c) ==
    IF \E i \in DOMAIN UpperChars : UpperChars[i] = c
    THEN LowerChars[CHOOSE i \in DOMAIN UpperChars : UpperChars[i] = c]
    ELSE c

\* str.lower()
Lower(s) == [i \in DOMAIN s |-> LowerChar(s[i])]

\* the characters str.strip() removes
IsSpace(c) == c \in {" ", "\t", "\n", "\r"}

\* str.strip(): drop leading and trailing whitespace
Strip(s) ==
    LET keep == {i \in DOMAIN s : ~IsSpace(s[i])}
    IN  IF keep = {} THEN <<>>
        ELSE LET lo == CHOOSE i \in keep : \A j \in keep : i <= j
                 hi == CHOOSE i \in keep : \A j \in keep : j <= i
             IN  SubSeq(s, lo, hi)

\* str.startswith(p)
StartsWith(s, p) == Len(s) >= Len(p) /\ SubSeq(s, 1, Len(p)) = p

\* str.endswith(p)
EndsWith(s, p) == Len(s) >= Len(p) /\ SubSeq(s, Len(s) - Len(p) + 1, Len(s)) = p

\* s.endswith(p) where p in s is meant
Contains_at_end(s, p) == Len(s) >= Len(p) /\ SubSeq(s, Len(s) - Len(p) + 1, Len(s)) = p

\* p in s
Contains(s, p) ==
    \E i \in 1..(Len(s) - Len(p) + 1) : SubSeq(s, i, i + Len(p) - 1) = p

\* the characters of s equal to c, by position
IndexesOf(s, c) == {i \in DOMAIN s : s[i] = c}

\* s.split(c)[0] alone: what follows the first c is dropped
Split1_drops_rest(s, c) ==
    IF IndexesOf(s, c) = {} THEN <<s>>
    ELSE <<SubSeq(s, 1, (CHOOSE i \in IndexesOf(s, c) : \A j \in IndexesOf(s, c) : i <= j) - 1)>>

\* s.split(c, 1): <<s>> without c, else <<before the first c, after it>>
Split1(s, c) ==
    IF IndexesOf(s, c) = {} THEN <<s>>
    ELSE LET k == CHOOSE i \in IndexesOf(s, c) : \A j \in IndexesOf(s, c) : i <= j
         IN  <<SubSeq(s, 1, k - 1), SubSeq(s, k + 1, Len(s))>>

------------------------------------------------------------------------------
(* url_normalization.py                                                    *)

HTTP_PREFIX  == <<"h","t","t","p",":","/","/">>
HTTPS_PREFIX == <<"h","t","t","p","s",":","/","/">>

\* HasScheme recognising https:// alone
HasScheme_https_only(s) == StartsWith(Lower(s), HTTPS_PREFIX)

\* the scheme test without re.IGNORECASE
HasScheme_case_sensitive(s) == StartsWith(s, HTTP_PREFIX) \/ StartsWith(s, HTTPS_PREFIX)

\* re.match(r"^https?://", s, flags=re.IGNORECASE)
HasScheme(s) == StartsWith(Lower(s), HTTP_PREFIX) \/ StartsWith(Lower(s), HTTPS_PREFIX)

\* normalize with the blank test made before strip() instead of after it
normalize_blank_before_strip(raw) ==
    IF raw = <<>> THEN <<>>
    ELSE LET s == Strip(raw) IN
         IF HasScheme(s) THEN s
         ELSE LET parts == Split1(s, "/")
                  host  == Strip(parts[1])
                  rest  == IF Len(parts) > 1 THEN <<"/">> \o parts[2] ELSE <<>>
                  host2 == IF /\ url_cfg.guess_com_if_no_dot
                              /\ ~Contains(host, <<".">>)
                              /\ Lower(host) \notin url_cfg.no_guess_hosts
                           THEN host \o <<".","c","o","m">>
                           ELSE host
              IN  url_cfg.default_scheme \o <<":","/","/">> \o host2 \o rest

\* normalize without the guess_com_if_no_dot test
normalize_always_guesses(raw) ==
    LET s == Strip(raw) IN
    IF s = <<>> THEN <<>>
    ELSE IF HasScheme(s) THEN s
    ELSE LET parts == Split1(s, "/")
             host  == Strip(parts[1])
             rest  == IF Len(parts) > 1 THEN <<"/">> \o parts[2] ELSE <<>>
             host2 == IF ~Contains(host, <<".">>) /\ Lower(host) \notin url_cfg.no_guess_hosts
                      THEN host \o <<".","c","o","m">>
                      ELSE host
         IN  url_cfg.default_scheme \o <<":","/","/">> \o host2 \o rest

\* GuessComUrlNormalizer.normalize
normalize(raw) ==
    LET s == Strip(raw) IN
    IF s = <<>> THEN <<>>
    ELSE IF HasScheme(s) THEN s
    ELSE LET parts == Split1(s, "/")
             host  == Strip(parts[1])
             rest  == IF Len(parts) > 1 THEN <<"/">> \o parts[2] ELSE <<>>
             host2 == IF /\ url_cfg.guess_com_if_no_dot
                         /\ ~Contains(host, <<".">>)
                         /\ Lower(host) \notin url_cfg.no_guess_hosts
                      THEN host \o <<".","c","o","m">>
                      ELSE host
         IN  url_cfg.default_scheme \o <<":","/","/">> \o host2 \o rest

------------------------------------------------------------------------------
(* The filesystem.  A path is a sequence of names (each a character        *)
(* sequence) below a common root.  f.reports and f.exe are the listings    *)
(* of the two configured directories, in the order iterdir()/glob() yield  *)
(* them; f.reports_exists and f.exe_exists say whether the directory       *)
(* exists.  A listing entry is                                             *)
(*    [name, kind ("dir" | "file"), mtime, entries]                        *)
(* and an entry of a subdirectory is                                       *)
(*    [name, kind ("file" | "dir" | "link"), target]                       *)
(* where target is the resolved path a symbolic link points to.            *)

REPORTS_BASE == <<"r","e","p","o","r","t","s">>
EXE_DIR      == <<"e","x","e","d","i","r">>
DOTDOT       == <<".",".">>

RUN_PREFIX == <<"c","o","m","p","a","r","i","s","o","n","_","r","e","p","o","r","t","_">>

EXT_HTML == <<".","h","t","m","l">>
EXT_DOCX == <<".","d","o","c","x">>
EXT_PPTX == <<".","p","p","t","x">>
EXT_MD   == <<".","m","d">>

\* Python's None for an optional Path: no path (the root itself is never a result)
NoPath == <<>>

\* base.exists() for a configured directory
BaseExists(f, base) ==
    IF base = REPORTS_BASE THEN f.reports_exists
    ELSE IF base = EXE_DIR THEN f.exe_exists
    ELSE FALSE

\* the listing of a configured directory (nothing when it does not exist)
Listing(f, base) ==
    IF base = REPORTS_BASE /\ f.reports_exists THEN f.reports
    ELSE IF base = EXE_DIR /\ f.exe_exists THEN f.exe
    ELSE <<>>

\* the positions of the entries called name in a listing
Named(listing, name) == {i \in DOMAIN listing : listing[i].name = name}

Missing == [kind |-> "missing"]

\* os.stat-like lookup of a resolved path: its entry, or Missing when nothing is there
Node(f, path) ==
    IF Len(path) = 0 THEN [kind |-> "dir"]
    ELSE IF ~BaseExists(f, path[1]) THEN Missing
    ELSE IF Len(path) = 1 THEN [kind |-> "dir"]
    ELSE LET l1 == Listing(f, path[1]) IN
         IF Named(l1, path[2]) = {} THEN Missing
         ELSE LET e == l1[CHOOSE i \in Named(l1, path[2]) : TRUE] IN
              IF Len(path) = 2 THEN e
              ELSE IF e.kind # "dir" \/ Len(path) > 3 \/ Named(e.entries, path[3]) = {} THEN Missing
              ELSE e.entries[CHOOSE i \in Named(e.entries, path[3]) : TRUE]

\* Path.exists()
Exists(f, path) == Node(f, path).kind # "missing"

\* Path.is_dir()
IsDir(f, path) == Node(f, path).kind = "dir"

\* Path.is_file()
IsFile(f, path) == Node(f, path).kind = "file"

\* Path.stat().st_mtime of a run directory
Mtime(f, path) == Node(f, path).mtime

------------------------------------------------------------------------------
(* run_repository.py                                                       *)

\* the candidates of _newest_run_dir_in, as positions of the listing in iterdir() order
Candidates(f, base) ==
    {i \in DOMAIN Listing(f, base) :
        /\ Listing(f, base)[i].kind = "dir"
        /\ StartsWith(Listing(f, base)[i].name, RUN_PREFIX)}

\* a maximum that keeps the last of the candidates with the greatest key
MaxByMtime_last(f, base, cands) ==
    CHOOSE i \in cands :
        /\ \A j \in cands : Listing(f, base)[j].mtime <= Listing(f, base)[i].mtime
        /\ \A j \in cands : Listing(f, base)[j].mtime = Listing(f, base)[i].mtime => j <= i

\* Python max(candidates, key=mtime): the first candidate whose key no other exceeds
MaxByMtime(f, base, cands) ==
    CHOOSE i \in cands :
        /\ \A j \in cands : Listing(f, base)[j].mtime <= Listing(f, base)[i].mtime
        /\ \A j \in cands : Listing(f, base)[j].mtime = Listing(f, base)[i].mtime => i <= j

\* _newest_run_dir_in(base)
newest_run_dir_in(f, base) ==
    IF ~BaseExists(f, base) THEN NoPath
    ELSE IF Candidates(f, base) = {} THEN NoPath
    ELSE <<base, Listing(f, base)[MaxByMtime(f, base, Candidates(f, base))].name>>

\* find_newest_run_dir returning the reports_base candidate whenever there is one
find_newest_run_dir_reports_first(f) ==
    LET a == newest_run_dir_in(f, REPORTS_BASE)
        b == newest_run_dir_in(f, EXE_DIR)
    IN  IF a # NoPath THEN a ELSE b

\* RunRepository.find_newest_run_dir
find_newest_run_dir(f) ==
    LET a == newest_run_dir_in(f, REPORTS_BASE)
        b == newest_run_dir_in(f, EXE_DIR)
    IN  IF a # NoPath /\ b # NoPath
        THEN (IF Mtime(f, a) >= Mtime(f, b) THEN a ELSE b)
        ELSE IF a # NoPath THEN a ELSE b

\* next(run_dir.glob("*" + ext), None): the first entry of run_dir, in glob order,
\* whose name ends with ext
GlobFirst(f, run_dir, ext) ==
    IF ~IsDir(f, run_dir) \/ Len(run_dir) # 2 THEN NoPath
    ELSE LET es == Node(f, run_dir).entries
             ms == {i \in DOMAIN es : EndsWith(es[i].name, ext)}
         IN  IF ms = {} THEN NoPath
             ELSE run_dir \o <<es[CHOOSE i \in ms : \A j \in ms : i <= j].name>>

\* pick_outputs with the docx and pptx patterns exchanged
pick_outputs_swapped(f, run_dir) ==
    [html |-> GlobFirst(f, run_dir, EXT_HTML),
     docx |-> GlobFirst(f, run_dir, EXT_PPTX),
     pptx |-> GlobFirst(f, run_dir, EXT_DOCX),
     md   |-> GlobFirst(f, run_dir, EXT_MD)]

\* RunRepository.pick_outputs
pick_outputs(f, run_dir) ==
    [html |-> GlobFirst(f, run_dir, EXT_HTML),
     docx |-> GlobFirst(f, run_dir, EXT_DOCX),
     pptx |-> GlobFirst(f, run_dir, EXT_PPTX),
     md   |-> GlobFirst(f, run_dir, EXT_MD)]

------------------------------------------------------------------------------
(* analysis_service.py                                                     *)

EXE_PATH == EXE_DIR \o <<"/","t","g","a",".","e","x","e">>

FLAG_COMPETITOR == <<"-","-","c","o","m","p","e","t","i","t","o","r">>
FLAG_BASELINE   == <<"-","-","b","a","s","e","l","i","n","e">>
FLAG_FILE       == <<"-","-","f","i","l","e">>
FLAG_PRESET     == <<"-","-","i","n","s","t","r","u","c","t","i","o","n","-","p","r","e","s","e","t">>
FLAG_EXTRA      == <<"-","-","e","x","t","r","a","-","i","n","s","t","r","u","c","t","i","o","n","s">>

UNRECOGNIZED_ARGUMENTS == <<"u","n","r","e","c","o","g","n","i","z","e","d"," ","a","r","g","u","m","e","n","t","s">>
UNKNOWN_OPTION         == <<"u","n","k","n","o","w","n"," ","o","p","t","i","o","n">>
UNRECOGNIZED_OPTION    == <<"u","n","r","e","c","o","g","n","i","z","e","d"," ","o","p","t","i","o","n">>

\* the number of lines of stdout / stderr kept in a result
TailLines == 60

\* str.splitlines(): lines without their line breaks ("\n", "\r", "\r\n")
RECURSIVE splitlines(_)
splitlines(s) ==
    IF s = <<>> THEN <<>>
    ELSE LET brk == {i \in DOMAIN s : s[i] \in {"\n", "\r"}} IN
         IF brk = {} THEN <<s>>
         ELSE LET k    == CHOOSE i \in brk : \A j \in brk : i <= j
                  skip == IF s[k] = "\r" /\ k < Len(s) /\ s[k + 1] = "\n" THEN k + 1 ELSE k
              IN  <<SubSeq(s, 1, k - 1)>> \o splitlines(SubSeq(s, skip + 1, Len(s)))

\* "\n".join(lines)
RECURSIVE join(_)
join(lines) ==
    IF lines = <<>> THEN <<>>
    ELSE IF Len(lines) = 1 THEN lines[1]
    ELSE lines[1] \o <<"\n">> \o join(Tail(lines))

\* seq[:n] where seq[-n:] is meant: the first n lines
LastN_head(seq, n) == IF Len(seq) <= n THEN seq ELSE SubSeq(seq, 1, n)

\* seq[-n:]
LastN(seq, n) == IF Len(seq) <= n THEN seq ELSE SubSeq(seq, Len(seq) - n + 1, Len(seq))

\* "\n".join((text or "").splitlines()[-60:])
tail(text) == join(LastN(splitlines(text), TailLines))

\* base_cmd passing --baseline only when a baseline is given
base_cmd_optional_baseline(competitor, baseline, file_raw) ==
    <<EXE_PATH, FLAG_COMPETITOR, competitor>>
    \o (IF baseline # <<>> THEN <<FLAG_BASELINE, baseline>> ELSE <<>>)
    \o (IF Strip(file_raw) # <<>> THEN <<FLAG_FILE, Strip(file_raw)>> ELSE <<>>)

\* the base command: exe, --competitor, --baseline, and --file when a file is given
base_cmd(competitor, baseline, file_raw) ==
    <<EXE_PATH, FLAG_COMPETITOR, competitor, FLAG_BASELINE, baseline>>
    \o (IF Strip(file_raw) # <<>> THEN <<FLAG_FILE, Strip(file_raw)>> ELSE <<>>)

\* cmd of the first attempt; extra_instructions and instruction_preset already stripped
first_cmd(competitor, baseline, file_raw, extra_instructions, instruction_preset) ==
    base_cmd(competitor, baseline, file_raw)
    \o (IF instruction_preset # <<>> THEN <<FLAG_PRESET, instruction_preset>> ELSE <<>>)
    \o (IF extra_instructions # <<>> THEN <<FLAG_EXTRA, extra_instructions>> ELSE <<>>)

\* fallback_cmd of the retry
fallback_cmd(competitor, baseline, file_raw) == base_cmd(competitor, baseline, file_raw)

\* unrecognized without .lower(): the phrases matched in lower case only
unrecognized_case_sensitive(stderr_text) ==
    \/ Contains(stderr_text, UNRECOGNIZED_ARGUMENTS)
    \/ Contains(stderr_text, UNKNOWN_OPTION)
    \/ Contains(stderr_text, UNRECOGNIZED_OPTION)

\* unrecognized: stderr names an option the EXE does not know
unrecognized(stderr_text) ==
    \/ Contains(Lower(stderr_text), UNRECOGNIZED_ARGUMENTS)
    \/ Contains(Lower(stderr_text), UNKNOWN_OPTION)
    \/ Contains(Lower(stderr_text), UNRECOGNIZED_OPTION)

\* the condition of the retry, on the CompletedProcess of the first attempt
should_retry(cp, extra_instructions, instruction_preset) ==
    /\ cp.returncode # 0
    /\ unrecognized(cp.stderr)
    /\ (extra_instructions # <<>> \/ instruction_preset # <<>>)

\* outputs when no run directory was found (Python None)
NoOutputs == [none |-> TRUE]

\* status taking exit code 1 for a success
status_of_one_is_ok(returncode) == IF returncode <= 1 THEN "ok" ELSE "failed"

\* status of a result
status_of(returncode) == IF returncode = 0 THEN "ok" ELSE "failed"

\* the AnalysisResult built after the last attempt; finished is the clock at
\* datetime.now(), the scan reads the filesystem as it is then
make_result(r, cp, finished, run_dir, outputs) ==
    [status           |-> status_of(cp.returncode),
     competitor       |-> r.competitor,
     baseline         |-> r.baseline,
     generated_at     |-> finished,
     duration_seconds |-> finished - r.started,
     exit_code        |-> cp.returncode,
     run_id           |-> finished,
     run_dir          |-> run_dir,
     outputs          |-> outputs,
     stdout_tail      |-> tail(cp.stdout),
     stderr_tail      |-> tail(cp.stderr)]

-------------------------------------------------------------------------------------------------------------------------------------------------------
(* Bounds and inputs                                                       *)

\* the clock stops advancing at MaxClock seconds
MaxClock == 2

\* the external program writes at most MaxRunDirs run directories
MaxRunDirs == 1

Digits == <<"1","2","3","4","5","6","7","8","9">>

ACME == <<" ","a","c","m","e"," ">>

\* raw baseline / file / instruction inputs
Baselines   == {<<>>, <<"b",".","i","o","/","x">>}
Files       == {<<" ">>, <<" ","i","n",".","p","d","f"," ">>}
Extras      == {<<>>, <<"b","e"," ","b","r","i","e","f">>}
PresetKeys  == {<<" ">>, <<"r","i","s","k">>}

Args(c, b, f, e, p) == [c |-> c, b |-> b, f |-> f, e |-> e, p |-> p]

\* the arguments of a call: a blank or whitespace-only competitor, or a competitor
\* with every combination of the optional arguments
RunArgs ==
    {Args(<<>>, <<"b",".","i","o","/","x">>, <<" ","i","n",".","p","d","f"," ">>,
          <<"b","e"," ","b","r","i","e","f">>, <<"r","i","s","k">>),
     Args(<<" ","\t">>, <<>>, <<" ">>, <<>>, <<" ">>)}
    \cup {Args(ACME, b, f, e, p) : b \in Baselines, f \in Files, e \in Extras, p \in PresetKeys}

ERR_UNKNOWN_OPTION ==
    <<"E","r","r","o","r",":"," ","U","n","k","n","o","w","n"," ","O","p","t","i","o","n"," ","-","x">>
ERR_UNRECOGNIZED_ARGUMENTS ==
    <<"u","s","a","g","e","\n","e","r","r","o","r",":"," ","u","n","r","e","c","o","g","n","i","z","e","d"," ","a","r","g","u","m","e","n","t","s",":"," ","-","x">>
ERR_UNRECOGNIZED_OPTION ==
    <<"u","n","r","e","c","o","g","n","i","z","e","d"," ","o","p","t","i","o","n"," ","'","-","x","'">>
ERR_OTHER == <<"T","r","a","c","e","b","a","c","k","\n","b","o","o","m">>
OUT_DONE  == <<"s","t","e","p"," ","1","\n","d","o","n","e","\n">>

\* what subprocess.run can end with
Completed(rc, out, err) == [kind |-> "completed", returncode |-> rc, stdout |-> out, stderr |-> err]
TimeoutExpired == [kind |-> "timeout", returncode |-> -1, stdout |-> <<>>, stderr |-> <<>>]
LaunchError    == [kind |-> "oserror", returncode |-> -1, stdout |-> <<>>, stderr |-> <<>>]
NoProc         == [kind |-> "none",    returncode |-> -1, stdout |-> <<>>, stderr |-> <<>>]

\* the CompletedProcess values of the runs: success, success with a warning that
\* holds one of the phrases, failure with each phrase, with another error, with none
CompletedProcs ==
    {Completed(0, OUT_DONE, <<>>),
     Completed(0, OUT_DONE, ERR_UNKNOWN_OPTION),
     Completed(2, <<>>, ERR_UNKNOWN_OPTION),
     Completed(2, <<>>, ERR_UNRECOGNIZED_ARGUMENTS),
     Completed(1, <<>>, ERR_UNRECOGNIZED_OPTION),
     Completed(1, OUT_DONE, ERR_OTHER),
     Completed(2, <<>>, <<>>)}

NOTES_TXT   == <<"n","o","t","e","s",".","t","x","t">>
REPORT_HTML == <<"r","e","p","o","r","t",".","h","t","m","l">>
REPORT_DOCX == <<"r","e","p","o","r","t",".","d","o","c","x">>
REPORT_PPTX == <<"r","e","p","o","r","t",".","p","p","t","x">>
REPORT_MD   == <<"r","e","p","o","r","t",".","m","d">>
ASSETS      == <<"a","s","s","e","t","s">>
LATEST      == <<"l","a","t","e","s","t">>

File(name)         == [name |-> name, kind |-> "file", target |-> NoPath]
Dir(name)          == [name |-> name, kind |-> "dir",  target |-> NoPath]
Link(name, target) == [name |-> name, kind |-> "link", target |-> target]

\* what the external program leaves in a run directory: all four reports, or
\* one report with an assets directory and a link to a file outside the directory
OutputSets ==
    <<  <<File(REPORT_HTML), File(REPORT_DOCX), File(REPORT_PPTX), File(REPORT_MD)>>,
        <<Dir(ASSETS), File(REPORT_MD), Link(LATEST, <<REPORTS_BASE, NOTES_TXT>>)>>  >>

\* the filesystem at startup: both directories exist (load_settings checks the
\* EXE and creates reports_base); reports_base holds a file that is no report
InitFs ==
    [reports_exists |-> TRUE,
     reports |-> << [name |-> NOTES_TXT, kind |-> "file", mtime |-> 0, entries |-> <<>>] >>,
     exe_exists |-> TRUE,
     exe |-> <<>>]

\* a run directory left in reports_base by a run made before the application started
OLD_RUN == RUN_PREFIX \o <<"0">>

\* the filesystem at startup when an earlier run left its directory, with all four reports
InitFsOld ==
    [reports_exists |-> TRUE,
     reports |-> << [name |-> NOTES_TXT, kind |-> "file", mtime |-> 0, entries |-> <<>>],
                    [name |-> OLD_RUN, kind |-> "dir", mtime |-> 0, entries |-> OutputSets[1]] >>,
     exe_exists |-> TRUE,
     exe |-> <<>>]

\* the run directories written since startup
RunDirCount ==
    Cardinality({i \in Candidates(fs, REPORTS_BASE) : fs.reports[i].name # OLD_RUN})
        + Cardinality(Candidates(fs, EXE_DIR))

\* what one execution of the external program writes: nothing, or one new run
\* directory in one of the two locations
Write(base, set) == [base |-> base, set |-> set]
NoWrite == Write(NoPath, 1)

\* the filesystem after the external program wrote w at time t
ExeWrites(w, t) ==
    LET d == [name    |-> RUN_PREFIX \o <<Digits[RunDirCount + 1]>>,
              kind    |-> "dir",
              mtime   |-> t,
              entries |-> OutputSets[w.set]]
    IN  IF w.base = REPORTS_BASE THEN [fs EXCEPT !.reports = Append(@, d)]
        ELSE IF w.base = EXE_DIR THEN [fs EXCEPT !.exe = Append(@, d)]
        ELSE fs

DefaultUrlCfg ==
    [default_scheme      |-> <<"h","t","t","p","s">>,
     guess_com_if_no_dot |-> TRUE,
     no_guess_hosts      |-> { <<"l","o","c","a","l","h","o","s","t">> }]

------------------------------------------------------------------------------
(* The state machine                                                       *)

IdleReq ==
    [via |-> "none", competitor_raw |-> <<>>, baseline_raw |-> <<>>, file_raw |-> <<>>,
     extra_raw |-> <<>>, preset_raw |-> <<>>,
     competitor |-> <<>>, baseline |-> <<>>,
     extra_instructions |-> <<>>, instruction_preset |-> <<>>, started |-> 0]

NoOutcome == [kind |-> "none"]
Raised(error, message) == [kind |-> "raised", error |-> error, message |-> message]
Returned(result) == [kind |-> "returned", result |-> result]

NoResponse == [kind |-> "none"]

Init ==
    /\ url_cfg = DefaultUrlCfg
    /\ fs = InitFs
    /\ clock = 0
    /\ pc = "idle"
    /\ req = IdleReq
    /\ cmds = <<>>
    /\ proc = NoProc
    /\ scans = 0
    /\ outcome = NoOutcome
    /\ resp = NoResponse
    /\ runs = <<>>
    /\ ini = "ok"

\* AnalysisService.run up to the first subprocess.run: normalize, validate, build cmd, launch
Enter(via, a) ==
    LET competitor == normalize(a.c)
        baseline   == IF Strip(a.b) # <<>> THEN normalize(a.b) ELSE <<>>
        extra      == Strip(a.e)
        preset     == Strip(a.p)
        r == [via |-> via, competitor_raw |-> a.c, baseline_raw |-> a.b, file_raw |-> a.f,
              extra_raw |-> a.e, preset_raw |-> a.p,
              competitor |-> competitor, baseline |-> baseline,
              extra_instructions |-> extra, instruction_preset |-> preset,
              started |-> clock]
    IN  /\ req' = r
        /\ proc' = NoProc
        /\ scans' = 0
        /\ IF competitor = <<>>
           THEN /\ outcome' = Raised("ValueError", "Competitor is required.")
                /\ cmds' = <<>>
                /\ pc' = "idle"
           ELSE /\ outcome' = NoOutcome
                /\ cmds' = <<first_cmd(competitor, baseline, a.f, extra, preset)>>
                /\ pc' = "attempt1"
        /\ UNCHANGED <<url_cfg, fs, clock, ini>>

\* a direct call of AnalysisService.run
Run(a) ==
    /\ pc = "idle"
    /\ Enter("call", a)
    /\ UNCHANGED <<resp, runs>>

\* the external program runs: time passes, it may write a run directory
ExeRuns(dt, w) ==
    /\ pc \in {"attempt1", "attempt2"}
    /\ clock + dt <= MaxClock
    /\ w.base # NoPath => RunDirCount < MaxRunDirs
    /\ clock' = clock + dt
    /\ fs' = ExeWrites(w, clock')

------------------------------------------------------------------------------
(* routes.py                                                               *)

\* PRESET_INSTRUCTIONS, each text cut to its first lines
PRESET_INSTRUCTIONS(key) ==
    IF key = <<"r","i","s","k">>
    THEN <<"E","m","p","h","a","s","i","z","e"," ","c","o","m","p","l","i","a","n","c","e",".","\n",
           "H","i","g","h","l","i","g","h","t"," ","r","i","s","k","s",".">>
    ELSE IF key = <<"s","l","i","d","e">>
    THEN <<"F","o","r","m","a","t"," ","s","l","i","d","e","-","r","e","a","d","y",".">>
    ELSE <<>>

\* settings.extra_instructions, the [prompt] default of the INI file
SETTINGS_EXTRA == <<>>

\* str.isdigit() on a stripped string
IsDigits(s) == s # <<>> /\ \A i \in DOMAIN s : s[i] \in {"0","1","2","3","4","5","6","7","8","9"}

DigitValue(c) == CHOOSE n \in 0..9 : <<"0","1","2","3","4","5","6","7","8","9">>[n + 1] = c

\* int(raw)
RECURSIVE ToInt(_)
ToInt(s) == IF s = <<>> THEN 0 ELSE 10 * ToInt(SubSeq(s, 1, Len(s) - 1)) + DigitValue(s[Len(s)])

NoInt == -1

\* _safe_int
safe_int(raw) == IF IsDigits(Strip(raw)) THEN ToInt(Strip(raw)) ELSE NoInt

NoPreset == [found |-> FALSE, competitor |-> <<>>, baseline |-> <<>>, source_file_path |-> <<>>,
             instruction_preset |-> <<>>, extra_instructions |-> <<>>]

\* preset_repo.get_preset: the active rows of the preset table
get_preset(preset_id) ==
    IF preset_id = 1
    THEN [found |-> TRUE,
          competitor |-> <<"r","i","v","a","l">>,
          baseline |-> <<"o","l","d",".","i","o">>,
          source_file_path |-> <<"p",".","d","o","c","x">>,
          instruction_preset |-> <<"s","l","i","d","e">>,
          extra_instructions |-> <<>>]
    ELSE IF preset_id = 2
    THEN [found |-> TRUE,
          competitor |-> <<"o","t","h","e","r">>,
          baseline |-> <<>>,
          source_file_path |-> <<>>,
          instruction_preset |-> <<>>,
          extra_instructions |-> <<"u","s","e"," ","t","a","b","l","e","s">>]
    ELSE NoPreset

\* s if it is not empty, else t  (Python: if not s: s = t)
OrElse(s, t) == IF s # <<>> THEN s ELSE t

\* "\n\n".join([t for t in (preset_text, free_text) if t]).strip()
join_extra(preset_text, free_text) ==
    Strip(IF preset_text # <<>> /\ free_text # <<>> THEN preset_text \o <<"\n","\n">> \o free_text
          ELSE preset_text \o free_text)

\* run_analysis with the preset's free text read before the form's
run_analysis_call_preset_first(form, settings_extra) ==
    LET preset_id == safe_int(form.preset_id)
        preset    == IF preset_id # NoInt /\ preset_id # 0 THEN get_preset(preset_id) ELSE NoPreset
        file0     == OrElse(Strip(form.file), Strip(preset.source_file_path))
        competitor_raw == IF preset.found THEN OrElse(Strip(form.competitor), Strip(preset.competitor))
                          ELSE Strip(form.competitor)
        baseline_raw   == IF preset.found THEN OrElse(Strip(form.baseline), Strip(preset.baseline))
                          ELSE Strip(form.baseline)
        file_raw       == IF preset.found THEN OrElse(file0, Strip(preset.source_file_path)) ELSE file0
        preset_key     == IF preset.found
                          THEN OrElse(Strip(form.instruction_preset), Strip(preset.instruction_preset))
                          ELSE Strip(form.instruction_preset)
        free_text      == IF preset.found
                          THEN OrElse(Strip(preset.extra_instructions), Strip(form.extra_instructions))
                          ELSE Strip(form.extra_instructions)
        final_extra    == OrElse(join_extra(PRESET_INSTRUCTIONS(preset_key), free_text),
                                 Strip(settings_extra))
    IN  Args(competitor_raw, baseline_raw, file_raw, final_extra, preset_key)

\* run_analysis up to the call of analysis_service.run: the arguments of the call,
\* from the form and from settings.extra_instructions
run_analysis_call(form, settings_extra) ==
    LET preset_id == safe_int(form.preset_id)
        preset    == IF preset_id # NoInt /\ preset_id # 0 THEN get_preset(preset_id) ELSE NoPreset
        file0     == OrElse(Strip(form.file), Strip(preset.source_file_path))
        competitor_raw == IF preset.found THEN OrElse(Strip(form.competitor), Strip(preset.competitor))
                          ELSE Strip(form.competitor)
        baseline_raw   == IF preset.found THEN OrElse(Strip(form.baseline), Strip(preset.baseline))
                          ELSE Strip(form.baseline)
        file_raw       == IF preset.found THEN OrElse(file0, Strip(preset.source_file_path)) ELSE file0
        preset_key     == IF preset.found
                          THEN OrElse(Strip(form.instruction_preset), Strip(preset.instruction_preset))
                          ELSE Strip(form.instruction_preset)
        free_text      == IF preset.found
                          THEN OrElse(Strip(form.extra_instructions), Strip(preset.extra_instructions))
                          ELSE Strip(form.extra_instructions)
        final_extra    == OrElse(join_extra(PRESET_INSTRUCTIONS(preset_key), free_text),
                                 Strip(settings_extra))
    IN  Args(competitor_raw, baseline_raw, file_raw, final_extra, preset_key)

\* run_analysis up to the call of analysis_service.run, under the settings loaded
run_analysis_args(form) == run_analysis_call(form, SETTINGS_EXTRA)

NoLink == [run_id |-> -1, filename |-> <<>>]

\* _link_for: /download/<run_id>/<p.name>
link_for(run_id, p) == IF p = NoPath THEN NoLink ELSE [run_id |-> run_id, filename |-> p[Len(p)]]

\* a mapping that keeps the newest entry alone: runs = {run_id: run_dir}
Put_newest_only(m, k, v) == [x \in {k} |-> v]

\* runs[k] = v
Put(m, k, v) == [x \in DOMAIN m \cup {k} |-> IF x = k THEN v ELSE m[x]]

\* an exception that leaves the view function: no template is rendered, Flask
\* answers 500 (its own error page, or the debugger's)
Unhandled(error, message) ==
    [kind |-> "unhandled", status |-> 500, error |-> error, message |-> message]

\* result_page answering 200 whatever the status of the result
result_page_always_200(result) ==
    [kind      |-> "page",
     template  |-> "result.html",
     status    |-> 200,
     result    |-> result.status,
     generated |-> [html |-> NoLink, docx |-> NoLink, pptx |-> NoLink, md |-> NoLink]]

\* render_template("result.html", ...), code
result_page(result) ==
    LET outputs == result.outputs
        none    == outputs = NoOutputs
    IN  [kind      |-> "page",
         template  |-> "result.html",
         status    |-> IF result.status = "ok" THEN 200 ELSE 500,
         result    |-> result.status,
         generated |-> [html |-> link_for(result.run_id, IF none THEN NoPath ELSE outputs.html),
                        docx |-> link_for(result.run_id, IF none THEN NoPath ELSE outputs.docx),
                        pptx |-> link_for(result.run_id, IF none THEN NoPath ELSE outputs.pptx),
                        md   |-> link_for(result.run_id, IF none THEN NoPath ELSE outputs.md)]]

\* Path.resolve() of cur / rest: ".." steps up, a symbolic link is followed
RECURSIVE Resolve(_, _, _)
Resolve(f, cur, rest) ==
    IF rest = <<>> THEN cur
    ELSE IF Head(rest) = DOTDOT
         THEN Resolve(f, IF cur = <<>> THEN <<>> ELSE SubSeq(cur, 1, Len(cur) - 1), Tail(rest))
         ELSE LET nxt == Append(cur, Head(rest)) IN
              IF Node(f, nxt).kind = "link"
              THEN Resolve(f, Node(f, nxt).target, Tail(rest))
              ELSE Resolve(f, nxt, Tail(rest))

\* a in b.parents: a is a proper prefix of b
InParents(a, b) == Len(a) < Len(b) /\ SubSeq(b, 1, Len(a)) = a

\* Path.suffix: the name from its last dot on, when that dot is not its first character
Suffix(name) ==
    LET dots == {i \in DOMAIN name : name[i] = "." /\ i > 1} IN
    IF dots = {} THEN <<>>
    ELSE SubSeq(name, CHOOSE i \in dots : \A j \in dots : j <= i, Len(name))

\* abort(code)
Abort(code) == [kind |-> "abort", status |-> code]

\* send_file(full, as_attachment=...)
SendFile(full, as_attachment) ==
    [kind |-> "file", status |-> 200, path |-> full, as_attachment |-> as_attachment]

\* download testing the path as written, before resolve()
download_unresolved_check(run_id, filename) ==
    IF run_id \notin DOMAIN runs THEN Abort(404)
    ELSE LET run_dir == runs[run_id]
             full    == Resolve(fs, <<>>, run_dir \o filename)
         IN  IF ~InParents(run_dir, run_dir \o filename) THEN Abort(403)
             ELSE IF ~Exists(fs, full) \/ ~IsFile(fs, full) THEN Abort(404)
             ELSE SendFile(full, Lower(Suffix(full[Len(full)])) \notin {EXT_HTML})

\* download(run_id, filename): filename as the path components pathlib sees in it
download(run_id, filename) ==
    IF run_id \notin DOMAIN runs THEN Abort(404)
    ELSE LET run_dir == runs[run_id]
             full    == Resolve(fs, <<>>, run_dir \o filename)
         IN  IF ~InParents(Resolve(fs, <<>>, run_dir), full) THEN Abort(403)
             ELSE IF ~Exists(fs, full) \/ ~IsFile(fs, full) THEN Abort(404)
             ELSE SendFile(full, Lower(Suffix(full[Len(full)])) \notin {EXT_HTML})

\* AfterRun recording the run whether or not the result names a directory
AfterRun_records_always(o) ==
    IF req.via # "web" THEN UNCHANGED <<resp, runs>>
    ELSE IF o.kind = "returned"
    THEN /\ runs' = Put(runs, o.result.run_id, o.result.run_dir)
         /\ resp' = result_page(o.result)
    ELSE /\ resp' = Unhandled(o.error, o.message)
         /\ UNCHANGED runs

\* what the caller of AnalysisService.run does with its outcome o: run_analysis
\* records the run directory and renders the result, and handles no exception
AfterRun(o) ==
    IF req.via # "web" THEN UNCHANGED <<resp, runs>>
    ELSE IF o.kind = "returned"
    THEN /\ runs' = IF o.result.run_dir # NoPath
                    THEN Put(runs, o.result.run_id, o.result.run_dir)
                    ELSE runs
         /\ resp' = result_page(o.result)
    ELSE /\ resp' = Unhandled(o.error, o.message)
         /\ UNCHANGED runs

\* ProcCompletes with the retry wrapped in a loop: the fallback command is
\* launched again whenever the retried run ends with an unknown-flag error
ProcCompletes_retries_again(pr, dt, w) ==
    /\ ExeRuns(dt, w)
    /\ proc' = pr
    /\ IF should_retry(pr, req.extra_instructions, req.instruction_preset)
       THEN /\ cmds' = Append(cmds, fallback_cmd(req.competitor, req.baseline, req.file_raw))
            /\ req' = [req EXCEPT !.started = clock']
            /\ pc' = "attempt2"
            /\ UNCHANGED <<scans, outcome, resp, runs>>
       ELSE LET run_dir == find_newest_run_dir(fs')
                outputs == IF run_dir # NoPath THEN pick_outputs(fs', run_dir) ELSE NoOutputs
            IN  /\ outcome' = Returned(make_result(req, pr, clock', run_dir, outputs))
                /\ scans' = scans + 1
                /\ pc' = "idle"
                /\ UNCHANGED <<cmds, req>>
                /\ AfterRun(outcome')
    /\ UNCHANGED <<url_cfg, ini>>

\* subprocess.run returned a CompletedProcess: retry without the prompt flags, or
\* scan for the run directory and return the result
ProcCompletes(pr, dt, w) ==
    /\ ExeRuns(dt, w)
    /\ proc' = pr
    /\ IF pc = "attempt1" /\ should_retry(pr, req.extra_instructions, req.instruction_preset)
       THEN /\ cmds' = Append(cmds, fallback_cmd(req.competitor, req.baseline, req.file_raw))
            /\ req' = [req EXCEPT !.started = clock']
            /\ pc' = "attempt2"
            /\ UNCHANGED <<scans, outcome, resp, runs>>
       ELSE LET run_dir == find_newest_run_dir(fs')
                outputs == IF run_dir # NoPath THEN pick_outputs(fs', run_dir) ELSE NoOutputs
            IN  /\ outcome' = Returned(make_result(req, pr, clock', run_dir, outputs))
                /\ scans' = scans + 1
                /\ pc' = "idle"
                /\ UNCHANGED <<cmds, req>>
                /\ AfterRun(outcome')
    /\ UNCHANGED <<url_cfg, ini>>

\* ProcTimesOut with a timeout of the first attempt handled like an unknown flag:
\* the fallback command is launched
ProcTimesOut_retries(dt, w) ==
    /\ ExeRuns(dt, w)
    /\ proc' = TimeoutExpired
    /\ IF pc = "attempt1"
       THEN /\ cmds' = Append(cmds, fallback_cmd(req.competitor, req.baseline, req.file_raw))
            /\ pc' = "attempt2"
            /\ UNCHANGED <<outcome, resp, runs>>
       ELSE /\ outcome' = Raised("RuntimeError", "Execution timed out.")
            /\ pc' = "idle"
            /\ UNCHANGED cmds
            /\ AfterRun(outcome')
    /\ UNCHANGED <<url_cfg, req, scans, ini>>

\* ProcTimesOut with the scan placed in a finally block: it runs on a timeout too
ProcTimesOut_scans(dt, w) ==
    /\ ExeRuns(dt, w)
    /\ proc' = TimeoutExpired
    /\ outcome' = Raised("RuntimeError", "Execution timed out.")
    /\ scans' = scans + 1
    /\ pc' = "idle"
    /\ UNCHANGED <<url_cfg, cmds, req, ini>>
    /\ AfterRun(outcome')

\* subprocess.run raised TimeoutExpired
ProcTimesOut(dt, w) ==
    /\ ExeRuns(dt, w)
    /\ proc' = TimeoutExpired
    /\ outcome' = Raised("RuntimeError", "Execution timed out.")
    /\ pc' = "idle"
    /\ UNCHANGED <<url_cfg, cmds, req, scans, ini>>
    /\ AfterRun(outcome')

\* subprocess.run raised another exception: the program could not be launched
ProcFailsToLaunch ==
    /\ pc \in {"attempt1", "attempt2"}
    /\ proc' = LaunchError
    /\ outcome' = Raised("RuntimeError", "Failed to execute")
    /\ pc' = "idle"
    /\ UNCHANGED <<url_cfg, fs, clock, cmds, req, scans, ini>>
    /\ AfterRun(outcome')

\* the locals of the previous call are gone when another request is handled
ForgetCall ==
    /\ req' = IdleReq
    /\ cmds' = <<>>
    /\ proc' = NoProc
    /\ scans' = 0
    /\ outcome' = NoOutcome
    /\ pc' = "idle"

\* POST /run up to the first subprocess.run: load the settings, read the form and
\* the preset, call analysis_service.run
PostRun(form) ==
    /\ pc = "idle"
    /\ IF ini = "missing"
       THEN /\ ForgetCall
            /\ resp' = Unhandled("FileNotFoundError", "INI file not found or unreadable")
            /\ UNCHANGED <<url_cfg, fs, clock, ini>>
       ELSE /\ Enter("web", run_analysis_args(form))
            /\ resp' = IF outcome'.kind = "raised"
                       THEN Unhandled(outcome'.error, outcome'.message)
                       ELSE NoResponse
    /\ UNCHANGED runs

\* GET /download/<run_id>/<filename>
Download(run_id, filename) ==
    /\ pc = "idle"
    /\ resp' = [kind |-> "download", run_id |-> run_id, filename |-> filename,
                 answer |-> download(run_id, filename)]
    /\ ForgetCall
    /\ UNCHANGED <<url_cfg, fs, clock, runs, ini>>

\* index(): render_template("index.html", ...) with the dropdowns, the selected
\* preset's values when ?preset_id= names one, and the error shown, if any
index(preset_arg, db_ok) ==
    LET preset_id == safe_int(preset_arg)
        preset    == IF preset_id # NoInt THEN get_preset(preset_id) ELSE NoPreset
        blank     == [kind |-> "index", template |-> "index.html", status |-> 200,
                      preset_id |-> preset_id, error |-> "none",
                      competitor |-> <<>>, baseline |-> <<>>, file |-> <<>>,
                      instruction_preset |-> <<>>, extra_instructions |-> SETTINGS_EXTRA]
    IN  IF ~db_ok THEN [blank EXCEPT !.error = "Failed to load dropdown data from SQL Server"]
        ELSE IF preset_id = NoInt THEN blank
        ELSE IF ~preset.found THEN [blank EXCEPT !.error = "Preset id not found or inactive."]
        ELSE [blank EXCEPT !.competitor = Strip(preset.competitor),
                           !.baseline = Strip(preset.baseline),
                           !.file = Strip(preset.source_file_path),
                           !.instruction_preset = Strip(preset.instruction_preset),
                           !.extra_instructions = OrElse(preset.extra_instructions, SETTINGS_EXTRA)]

\* GET /: load the settings from the INI file, then render the form
GetIndex(preset_arg, db_ok) ==
    /\ pc = "idle"
    /\ resp' = IF ini = "missing"
               THEN Unhandled("FileNotFoundError", "INI file not found or unreadable")
               ELSE index(preset_arg, db_ok)
    /\ ForgetCall
    /\ UNCHANGED <<url_cfg, fs, clock, runs, ini>>

\* the INI file is removed, or put back
IniChanges ==
    /\ ini' = IF ini = "ok" THEN "missing" ELSE "ok"
    /\ UNCHANGED <<url_cfg, fs, clock, pc, req, cmds, proc, scans, outcome, resp, runs>>

\* what the external program writes in the runs of Spec
ServiceWrites == {NoWrite, Write(REPORTS_BASE, 1)}

Next ==
    \/ \E a \in RunArgs : Run(a)
    \/ \E pr \in CompletedProcs, dt \in 0..1, w \in ServiceWrites : ProcCompletes(pr, dt, w)
    \/ \E dt \in 0..1, w \in ServiceWrites : ProcTimesOut(dt, w)
    \/ ProcFailsToLaunch

Spec == Init /\ [][Next]_vars

\* the submitted forms: nothing filled in; a competitor alone; a competitor with
\* an instruction preset and free text; a preset chosen and nothing else; a
\* competitor and the id of a preset that does not exist
Form(c, b, f, id, key, extra) ==
    [competitor |-> c, baseline |-> b, file |-> f, preset_id |-> id,
     instruction_preset |-> key, extra_instructions |-> extra]

WebForms ==
    {Form(<<" ">>, <<>>, <<>>, <<>>, <<>>, <<>>),
     Form(ACME, <<>>, <<>>, <<>>, <<>>, <<>>),
     Form(ACME, <<"b",".","i","o","/","x">>, <<>>, <<>>, <<"r","i","s","k">>, <<"b","e"," ","b","r","i","e","f">>),
     Form(<<>>, <<>>, <<>>, <<" ","1">>, <<>>, <<>>),
     Form(ACME, <<>>, <<>>, <<"7">>, <<>>, <<>>)}

\* how the external program ends in the runs of SpecWeb
WebProcs ==
    {Completed(0, OUT_DONE, <<>>),
     Completed(2, <<>>, ERR_UNKNOWN_OPTION),
     Completed(1, OUT_DONE, ERR_OTHER)}

\* what the external program writes in the runs of SpecWeb
WebWrites == {NoWrite, Write(REPORTS_BASE, 2)}

GONE_MD == <<"g","o","n","e",".","m","d">>

\* the <filename> of a download request, as path components: a report, a
\* directory, a link, a name that is not there, a step out of the directory
Filenames ==
    {<<REPORT_MD>>, <<REPORT_HTML>>, <<ASSETS>>, <<LATEST>>, <<GONE_MD>>, <<DOTDOT, NOTES_TXT>>}

\* the ?preset_id= of a GET /: none, an active preset, one that does not exist
IndexArgs == {<<>>, <<"1">>, <<"7">>}

NextWeb ==
    \/ \E form \in WebForms : PostRun(form)
    \/ \E pr \in WebProcs, dt \in 0..1, w \in WebWrites : ProcCompletes(pr, dt, w)
    \/ \E dt \in 0..1, w \in WebWrites : ProcTimesOut(dt, w)
    \/ ProcFailsToLaunch
    \/ \E run_id \in 0..MaxClock, filename \in Filenames : Download(run_id, filename)
    \/ \E preset_arg \in IndexArgs, db_ok \in BOOLEAN : GetIndex(preset_arg, db_ok)
    \/ IniChanges

SpecWeb == Init /\ [][NextWeb]_vars

\* the application started where an earlier run left its directory
InitOld ==
    /\ url_cfg = DefaultUrlCfg
    /\ fs = InitFsOld
    /\ clock = 0
    /\ pc = "idle"
    /\ req = IdleReq
    /\ cmds = <<>>
    /\ proc = NoProc
    /\ scans = 0
    /\ outcome = NoOutcome
    /\ resp = NoResponse
    /\ runs = <<>>
    /\ ini = "ok"

SpecWebOld == InitOld /\ [][NextWeb]_vars

------------------------------------------------------------------------------
(* Direct calls of RunRepository over small directory trees                *)

\* the longest listing of a directory
MaxEntries == 2

RUN_1     == RUN_PREFIX \o <<"1">>
RUN_2     == RUN_PREFIX \o <<"2">>
OTHER_DIR == <<"o","l","d","_">> \o RUN_PREFIX
INDEX_HTML == <<"i","n","d","e","x",".","h","t","m","l">>
SITE_HTML  == <<"s","i","t","e",".","h","t","m","l">>

RunDir(name, mtime) == [name |-> name, kind |-> "dir", mtime |-> mtime, entries |-> <<>>]

\* what a searched location can hold: run directories of two ages, a plain file
\* carrying the prefix, and a directory of another name, both newer than any run
BaseEntries ==
    {RunDir(RUN_1, 1), RunDir(RUN_1, 2), RunDir(RUN_2, 1), RunDir(RUN_2, 2),
     [name |-> RUN_1, kind |-> "file", mtime |-> 3, entries |-> <<>>],
     RunDir(OTHER_DIR, 3)}

\* what a run directory can hold: reports, a second html file, a file that is no
\* report, a subdirectory whose name ends like a report
OutputEntries ==
    {File(REPORT_HTML), File(INDEX_HTML), File(REPORT_DOCX), File(REPORT_PPTX),
     File(REPORT_MD), File(NOTES_TXT), Dir(SITE_HTML)}

\* the listings of at most MaxEntries entries of distinct names
ListingsOf(entries) ==
    {l \in UNION {[1..n -> entries] : n \in 0..MaxEntries} :
        \A i, j \in DOMAIN l : l[i].name = l[j].name => i = j}

\* the trees searched by find_newest_run_dir: each location missing or listed
FindFilesystems ==
    {[reports_exists |-> re, reports |-> r, exe_exists |-> xe, exe |-> x] :
        re \in BOOLEAN, xe \in BOOLEAN,
        r \in ListingsOf(BaseEntries), x \in ListingsOf(BaseEntries)}

\* the trees read by pick_outputs: one run directory and what it holds
PickFilesystems ==
    {[reports_exists |-> TRUE,
      reports |-> << [name |-> RUN_1, kind |-> "dir", mtime |-> 1, entries |-> es] >>,
      exe_exists |-> TRUE,
      exe |-> << RunDir(RUN_2, 1) >>] : es \in ListingsOf(OutputEntries)}

InitRepo ==
    /\ fs \in {f \in FindFilesystems : (~f.reports_exists => f.reports = <<>>)
                                       /\ (~f.exe_exists => f.exe = <<>>)}
              \cup PickFilesystems
    /\ url_cfg = DefaultUrlCfg
    /\ clock = 0
    /\ pc = "idle"
    /\ req = IdleReq
    /\ cmds = <<>>
    /\ proc = NoProc
    /\ scans = 0
    /\ outcome = NoOutcome
    /\ resp = NoResponse
    /\ runs = <<>>
    /\ ini = "ok"

\* find_newest_run_dir creating reports_base when it is missing, as load_settings does
FindNewestRunDir_creates_base ==
    /\ outcome' = [kind |-> "found", run_dir |-> find_newest_run_dir(fs)]
    /\ fs' = [fs EXCEPT !.reports_exists = TRUE]
    /\ UNCHANGED <<url_cfg, clock, pc, req, cmds, proc, scans, resp, runs, ini>>

\* a call of repo.find_newest_run_dir()
FindNewestRunDir ==
    /\ outcome' = [kind |-> "found", run_dir |-> find_newest_run_dir(fs)]
    /\ UNCHANGED <<url_cfg, fs, clock, pc, req, cmds, proc, scans, resp, runs, ini>>

\* a call of _newest_run_dir_in(base)
NewestRunDirIn(base) ==
    /\ outcome' = [kind |-> "newest_in", base |-> base, run_dir |-> newest_run_dir_in(fs, base)]
    /\ UNCHANGED <<url_cfg, fs, clock, pc, req, cmds, proc, scans, resp, runs, ini>>

\* a call of repo.pick_outputs(run_dir)
PickOutputs(run_dir) ==
    /\ outcome' = [kind |-> "picked", run_dir |-> run_dir, outputs |-> pick_outputs(fs, run_dir)]
    /\ UNCHANGED <<url_cfg, fs, clock, pc, req, cmds, proc, scans, resp, runs, ini>>

NextRepo ==
    \/ FindNewestRunDir
    \/ \E base \in {REPORTS_BASE, EXE_DIR} : NewestRunDirIn(base)
    \/ \E run_dir \in {<<REPORTS_BASE, RUN_1>>, <<EXE_DIR, RUN_2>>} : PickOutputs(run_dir)

SpecRepo == InitRepo /\ [][NextRepo]_vars

------------------------------------------------------------------------------
(* Direct calls of GuessComUrlNormalizer.normalize                         *)

\* the longest of the enumerated inputs
MaxInputLen == 3

LOCALHOST_LC == <<"l","o","c","a","l","h","o","s","t">>
LOCALHOST_MC == <<"L","o","c","a","l","H","o","s","t">>

\* the characters of the enumerated inputs
NormAlphabet == {"a", "B", ".", "/", " ", ":"}

\* every text of at most MaxInputLen characters
ShortTexts == UNION {[1..n -> NormAlphabet] : n \in 0..MaxInputLen}

\* longer inputs: the cases of test_url_normalization.py, and inputs with
\* surrounding whitespace, upper case, a port, a scheme
LongTexts ==
    {<<"e","x","a","m","p","l","e">>,
     <<"e","x","a","m","p","l","e","/","p","a","t","h">>,
     <<"e","x","a","m","p","l","e",".","c","o","m","/","p","a","t","h">>,
     <<"e","x","/","a",".","b">>,
     <<" ","e","x","a","m","p","l","e","\t">>,
     <<" ","\t","\n"," ">>,
     LOCALHOST_LC,
     <<"L","O","C","A","L","H","O","S","T">>,
     LOCALHOST_LC \o <<":","5","0","0","0">>,
     LOCALHOST_LC \o <<"/","x">>,
     <<"1","2","7",".","0",".","0",".","1",":","5","0","0","0","/","t","e","s","t">>,
     HTTPS_PREFIX \o <<"e","x","a","m","p","l","e",".","c","o","m">>,
     HTTP_PREFIX \o <<"e","x","a","m","p","l","e",".","c","o","m","/","a","/","b">>,
     <<"H","T","T","P",":","/","/","E","x","a","m","p","l","e",".","c","o","m">>,
     <<"h","t","t","p","S",":","/","/","e","x">>,
     HTTPS_PREFIX \o <<"a",".","i","o"," ">>,
     <<" ">> \o HTTP_PREFIX \o <<"a",".","i","o">>,
     HTTPS_PREFIX,
     <<"h","t","t","p",":","/","x">>,
     <<"f","t","p",":","/","/","x",".","y">>}

\* an argument of normalize: None, or a text
NoneArg == [none |-> TRUE, text |-> <<>>]
TextArg(t) == [none |-> FALSE, text |-> t]
NormArgs == {NoneArg} \cup {TextArg(t) : t \in ShortTexts \cup LongTexts}

\* str(s) where (s or "") is meant: None becomes the text "None"
or_empty_str_none(arg) == IF arg.none THEN <<"N","o","n","e">> ELSE arg.text

\* (s or "")
or_empty(arg) == IF arg.none THEN <<>> ELSE arg.text

\* the normalizers constructed: both schemes, guessing on and off, and exclusion
\* sets that are empty, lower case, or written with capitals
NormCfgs ==
    {[default_scheme |-> sch, guess_com_if_no_dot |-> g, no_guess_hosts |-> ng] :
        sch \in {<<"h","t","t","p","s">>, <<"h","t","t","p">>},
        g \in BOOLEAN,
        ng \in {{}, {LOCALHOST_LC, <<"a","b">>}, {LOCALHOST_MC, <<"a","B">>}}}

InitNorm ==
    /\ url_cfg \in NormCfgs
    /\ fs = InitFs
    /\ clock = 0
    /\ pc = "idle"
    /\ req = IdleReq
    /\ cmds = <<>>
    /\ proc = NoProc
    /\ scans = 0
    /\ outcome = NoOutcome
    /\ resp = NoResponse
    /\ runs = <<>>
    /\ ini = "ok"

\* a call of normalizer.normalize(arg), one in each behaviour
Normalize(arg) ==
    /\ outcome = NoOutcome
    /\ outcome' = [kind |-> "normalized", arg |-> arg, value |-> normalize(or_empty(arg))]
    /\ UNCHANGED <<url_cfg, fs, clock, pc, req, cmds, proc, scans, resp, runs, ini>>

NextNorm == \E arg \in NormArgs : Normalize(arg)

SpecNorm == InitNorm /\ [][NextNorm]_vars

------------------------------------------------------------------------------
(* The tails of captured output, on texts of up to MaxLines lines          *)

\* the most lines of a captured text
MaxLines == 62

DigitChars == <<"0","1","2","3","4","5","6","7","8","9">>

\* line i of a captured text: its number, two digits
NumberedLine(i) == <<DigitChars[((i \div 10) % 10) + 1], DigitChars[(i % 10) + 1]>>

\* the first n numbered lines, each followed by the line break brk
RECURSIVE NumberedLines(_, _)
NumberedLines(n, brk) ==
    IF n = 0 THEN <<>> ELSE NumberedLines(n - 1, brk) \o NumberedLine(n) \o brk

\* a text of n numbered lines; the last line ends with a line break or not
NumberedText(n, brk, final) ==
    IF n = 0 THEN <<>>
    ELSE NumberedLines(n - 1, brk) \o NumberedLine(n) \o (IF final THEN brk ELSE <<>>)

\* what the external program can print: numbered lines with "\n" or "\r\n" line
\* breaks, and texts with empty lines, a lone "\r", a line break alone
CapturedTexts ==
    {NumberedText(n, brk, final) :
        n \in 0..MaxLines, brk \in {<<"\n">>, <<"\r","\n">>}, final \in BOOLEAN}
    \cup {<<"\n">>, <<"a","\n","\n","b","\n">>, <<"a","\r","b">>, <<"\n","a">>, OUT_DONE, ERR_OTHER}

InitTail ==
    /\ url_cfg = DefaultUrlCfg
    /\ fs = InitFs
    /\ clock = 0
    /\ pc = "idle"
    /\ req = IdleReq
    /\ cmds = <<>>
    /\ proc = NoProc
    /\ scans = 0
    /\ outcome = NoOutcome
    /\ resp = NoResponse
    /\ runs = <<>>
    /\ ini = "ok"

\* the tail expression of run, evaluated on one captured text
TailOf(text) ==
    /\ outcome = NoOutcome
    /\ outcome' = [kind |-> "tail", text |-> text, value |-> tail(text)]
    /\ UNCHANGED <<url_cfg, fs, clock, pc, req, cmds, proc, scans, resp, runs, ini>>

NextTail == \E text \in CapturedTexts : TailOf(text)

SpecTail == InitTail /\ [][NextTail]_vars

------------------------------------------------------------------------------
(* Claims about AnalysisService.run, checked under Spec                    *)

\* stderr holds, in any letter case, one of the three phrases
HasUnknownOptionPhrase(text) ==
    \E phrase \in {UNRECOGNIZED_ARGUMENTS, UNKNOWN_OPTION, UNRECOGNIZED_OPTION} :
        \E i \in 1..Len(text) :
            /\ i + Len(phrase) - 1 <= Len(text)
            /\ Lower(SubSeq(text, i, i + Len(phrase) - 1)) = phrase

\* a command without its "--instruction-preset <key>" and "--extra-instructions <text>"
RECURSIVE WithoutPromptFlags(_)
WithoutPromptFlags(cmd) ==
    IF cmd = <<>> THEN <<>>
    ELSE IF Head(cmd) \in {FLAG_PRESET, FLAG_EXTRA} /\ Len(cmd) >= 2
         THEN WithoutPromptFlags(Tail(Tail(cmd)))
         ELSE <<Head(cmd)>> \o WithoutPromptFlags(Tail(cmd))

\* the three conditions of the retry, on the raw arguments of the call and the
\* CompletedProcess of the first attempt
RetryConditions(r, cp) ==
    /\ cp.returncode # 0
    /\ HasUnknownOptionPhrase(cp.stderr)
    /\ (Strip(r.extra_raw) # <<>> \/ Strip(r.preset_raw) # <<>>)

\* C1: a second launch happens exactly when the first attempt completed with a
\* non-zero exit code, its stderr holds one of the three phrases in any letter case
\* and a prompt argument was given; the second command is the first one without
\* the two prompt flags and their values, everything else kept in place.
C1_RetryIffUnrecognizedFlags ==
    [][ /\ (pc = "attempt1" /\ proc'.kind = "completed")
            => ((Len(cmds') = 2) <=> RetryConditions(req, proc'))
        /\ (Len(cmds') = 2 /\ Len(cmds) # 2)
            => /\ pc = "attempt1" /\ proc'.kind = "completed" /\ pc' = "attempt2"
               /\ cmds'[1] = cmds[1]
               /\ cmds'[2] = WithoutPromptFlags(cmds[1])
      ]_vars

\* a retry was launched for a call that gave a file and both prompt arguments
C1_Witness ==
    /\ Len(cmds) = 2
    /\ Len(cmds[1]) = 11
    /\ cmds[2] = SubSeq(cmds[1], 1, 7)
    /\ cmds[2][6] = FLAG_FILE

\* C2: a timeout or a launch failure, on either attempt, makes run raise and return
\* no result, and a timeout is never followed by a retry; a completed process with
\* a non-zero exit code makes run return a result of status "failed".
C2_RaiseVersusFailed ==
    /\ pc = "attempt2" => proc.kind = "completed"
    /\ (pc = "idle" /\ proc.kind \in {"timeout", "oserror"})
        => /\ outcome.kind = "raised"
           /\ outcome.error = "RuntimeError"
    /\ (pc = "idle" /\ proc.kind = "completed")
        => /\ outcome.kind = "returned"
           /\ proc.returncode # 0 => outcome.result.status = "failed"
    /\ (outcome.kind = "raised" /\ outcome.error = "RuntimeError")
        => proc.kind \in {"timeout", "oserror"}

\* the retry timed out
C2_Witness ==
    /\ Len(cmds) = 2
    /\ proc.kind = "timeout"
    /\ outcome.kind = "raised"

\* C3: with an empty or whitespace-only competitor, run raises the validation
\* error, launches nothing and scans nothing, whatever the other arguments are.
C3_BlankCompetitorRejected ==
    (req.via # "none" /\ Strip(req.competitor_raw) = <<>>)
        => /\ pc = "idle"
           /\ outcome = Raised("ValueError", "Competitor is required.")
           /\ cmds = <<>>
           /\ proc = NoProc
           /\ scans = 0

\* a whitespace-only competitor was rejected
C3_Witness ==
    /\ req.via = "call"
    /\ req.competitor_raw = <<" ","\t">>
    /\ outcome.kind = "raised"

\* the command line the first attempt must have, from the raw arguments
ExpectedFirstCmd(r) ==
    <<EXE_PATH, FLAG_COMPETITOR, normalize(r.competitor_raw), FLAG_BASELINE,
      IF Strip(r.baseline_raw) = <<>> THEN <<>> ELSE normalize(r.baseline_raw)>>
    \o (IF Strip(r.file_raw) = <<>> THEN <<>> ELSE <<FLAG_FILE, Strip(r.file_raw)>>)
    \o (IF Strip(r.preset_raw) = <<>> THEN <<>> ELSE <<FLAG_PRESET, Strip(r.preset_raw)>>)
    \o (IF Strip(r.extra_raw) = <<>> THEN <<>> ELSE <<FLAG_EXTRA, Strip(r.extra_raw)>>)

\* C4: the first command is the exe path, --competitor and the normalized
\* competitor, --baseline and the normalized baseline (empty when blank), then
\* --file, --instruction-preset and --extra-instructions, in this order, each with
\* its trimmed value and each present exactly when its input is not blank.
C4_FirstCommand ==
    Len(cmds) >= 1
        => /\ cmds[1] = ExpectedFirstCmd(req)
           /\ cmds[1][4] = FLAG_BASELINE

\* competitor " acme ", blank baseline, file " in.pdf ", key "risk", text "be brief"
C4_Witness ==
    /\ Len(cmds) >= 1
    /\ cmds[1] = <<EXE_PATH,
                   FLAG_COMPETITOR, <<"h","t","t","p","s",":","/","/","a","c","m","e",".","c","o","m">>,
                   FLAG_BASELINE, <<>>,
                   FLAG_FILE, <<"i","n",".","p","d","f">>,
                   FLAG_PRESET, <<"r","i","s","k">>,
                   FLAG_EXTRA, <<"b","e"," ","b","r","i","e","f">> >>

\* C5: a returned result describes the last attempt executed: its exit code and
\* its stdout and stderr tails are those of the latest CompletedProcess, and its
\* status is "ok" exactly when that exit code is 0 and "failed" otherwise.
C5_ResultOfLastAttempt ==
    outcome.kind = "returned"
        => /\ proc.kind = "completed"
           /\ outcome.result.exit_code = proc.returncode
           /\ outcome.result.stdout_tail = tail(proc.stdout)
           /\ outcome.result.stderr_tail = tail(proc.stderr)
           /\ outcome.result.status = (IF proc.returncode = 0 THEN "ok" ELSE "failed")

\* a retry succeeded after the first attempt failed
C5_Witness ==
    /\ Len(cmds) = 2
    /\ outcome.kind = "returned"
    /\ outcome.result.status = "ok"
    /\ outcome.result.stderr_tail = <<>>

------------------------------------------------------------------------------
(* Claims about the routes, checked under SpecWeb                          *)

\* C6: POST /run answers a returned AnalysisResult with the rendered result page,
\* with HTTP status 200 exactly when the status of the result is "ok" and 500
\* exactly when it is "failed".
C6_StatusCodeOfResult ==
    /\ (req.via = "web" /\ outcome.kind = "returned")
        => /\ resp.kind = "page"
           /\ resp.template = "result.html"
           /\ resp.status \in {200, 500}
           /\ resp.status = 200 <=> outcome.result.status = "ok"
           /\ resp.status = 500 <=> outcome.result.status = "failed"
    /\ resp.kind = "page" => (req.via = "web" /\ outcome.kind = "returned")

\* a failed run was answered with the result page and status 500
C6_Witness ==
    /\ resp.kind = "page"
    /\ resp.status = 500
    /\ outcome.result.exit_code = 1

\* C7: a POST /run whose analysis raises (empty competitor, timeout, launch
\* failure) is answered with a rendered page that carries the error message, not
\* with an exception that leaves the view function.
C7_ErrorsRenderPage ==
    (req.via = "web" /\ outcome.kind = "raised")
        => /\ resp.kind = "page"
           /\ resp.error = outcome.message

\* p lies strictly inside directory d
StrictlyInside(p, d) == Len(d) < Len(p) /\ \A i \in 1..Len(d) : p[i] = d[i]

\* p is an existing regular file of the filesystem
RegularFile(p) ==
    /\ Len(p) \in 2..3
    /\ p[1] \in {REPORTS_BASE, EXE_DIR}
    /\ \E i \in DOMAIN Listing(fs, p[1]) :
          LET e == Listing(fs, p[1])[i] IN
          /\ e.name = p[2]
          /\ IF Len(p) = 2 THEN e.kind = "file"
             ELSE /\ e.kind = "dir"
                  /\ \E j \in DOMAIN e.entries :
                        e.entries[j].name = p[3] /\ e.entries[j].kind = "file"

\* C8: a download of an unrecorded run_id is answered 404; of a filename that
\* resolves to a path not strictly inside the recorded directory, 403; of a path
\* inside it that is no existing regular file, 404; otherwise the file at that
\* path is sent.  No download sends a file from outside the recorded directory.
C8_DownloadStaysInside ==
    resp.kind = "download" =>
        LET a == resp.answer IN
        /\ a.kind \in {"abort", "file"}
        /\ resp.run_id \notin DOMAIN runs => a = Abort(404)
        /\ resp.run_id \in DOMAIN runs =>
              LET dir    == runs[resp.run_id]
                  target == Resolve(fs, <<>>, dir \o resp.filename)
              IN  /\ ~StrictlyInside(target, dir) => a = Abort(403)
                  /\ (StrictlyInside(target, dir) /\ ~RegularFile(target)) => a = Abort(404)
                  /\ (StrictlyInside(target, dir) /\ RegularFile(target))
                        => (a.kind = "file" /\ a.path = target)
        /\ a.kind = "file" =>
              /\ resp.run_id \in DOMAIN runs
              /\ StrictlyInside(a.path, runs[resp.run_id])
              /\ RegularFile(a.path)

\* a link inside the run directory to an existing file outside it was refused
C8_Witness ==
    /\ resp.kind = "download"
    /\ resp.filename = <<LATEST>>
    /\ resp.run_id \in DOMAIN runs
    /\ RegularFile(Resolve(fs, <<>>, runs[resp.run_id] \o resp.filename))
    /\ resp.answer = Abort(403)

------------------------------------------------------------------------------
(* Claims about RunRepository, checked under SpecRepo                      *)

HasRunPrefix(name) ==
    /\ Len(name) >= Len(RUN_PREFIX)
    /\ \A k \in 1..Len(RUN_PREFIX) : name[k] = RUN_PREFIX[k]

\* the subdirectories of a location that carry the prefix, with their ages
RunSubdirs(base, exists, listing) ==
    IF ~exists THEN {}
    ELSE {[path |-> <<base, listing[i].name>>, mtime |-> listing[i].mtime] :
             i \in {k \in DOMAIN listing :
                       listing[k].kind = "dir" /\ HasRunPrefix(listing[k].name)}}

AllRunSubdirs ==
    RunSubdirs(REPORTS_BASE, fs.reports_exists, fs.reports)
        \cup RunSubdirs(EXE_DIR, fs.exe_exists, fs.exe)

\* C9: find_newest_run_dir returns none exactly when neither location has a
\* subdirectory whose name starts with comparison_report_; otherwise it returns
\* such a subdirectory of one of the two locations that no other such
\* subdirectory of either location exceeds in modification time (so the strictly
\* newest one when there is one, and the single one when there is only one).
C9_NewestRunDir ==
    outcome.kind = "found" =>
        /\ AllRunSubdirs = {} <=> outcome.run_dir = NoPath
        /\ AllRunSubdirs # {} =>
              \E d \in AllRunSubdirs :
                  /\ d.path = outcome.run_dir
                  /\ \A o \in AllRunSubdirs : o.mtime <= d.mtime
        /\ \A d \in AllRunSubdirs :
              (\A o \in AllRunSubdirs \ {d} : o.mtime < d.mtime) => outcome.run_dir = d.path

\* the exe directory holds the strictly newest run directory, the reports base an
\* older one and a newer plain file carrying the prefix, and the former is returned
C9_Witness ==
    /\ outcome.kind = "found"
    /\ outcome.run_dir = <<EXE_DIR, RUN_2>>
    /\ RunSubdirs(REPORTS_BASE, fs.reports_exists, fs.reports) # {}
    /\ \E i \in DOMAIN fs.reports : fs.reports[i].kind = "file" /\ fs.reports[i].mtime = 3

\* the names directly inside a run directory of reports_base or of the exe directory
NamesInside(run_dir) ==
    LET listing == IF run_dir[1] = REPORTS_BASE THEN fs.reports ELSE fs.exe
    IN  UNION {{listing[i].entries[j].name : j \in DOMAIN listing[i].entries} :
                  i \in {k \in DOMAIN listing : listing[k].name = run_dir[2]}}

HasExtension(name, ext) ==
    /\ Len(name) >= Len(ext)
    /\ \A k \in 1..Len(ext) : name[Len(name) - Len(ext) + k] = ext[k]

SlotIsRight(slot, run_dir, ext) ==
    LET matching == {n \in NamesInside(run_dir) : HasExtension(n, ext)}
    IN  /\ matching = {} <=> slot = NoPath
        /\ slot # NoPath =>
              /\ Len(slot) = Len(run_dir) + 1
              /\ SubSeq(slot, 1, Len(run_dir)) = run_dir
              /\ slot[Len(slot)] \in matching

------------------------------------------------------------------------------
(* Claims about GuessComUrlNormalizer.normalize, checked under SpecNorm    *)

Whitespace == {" ", "\t", "\n", "\r"}

\* t begins, in any letter case, with http:// or https://
SchemePrefixed(t) ==
    /\ Len(t) >= 7
    /\ <<t[1], t[2], t[3], t[4]>> \in
          {<<h, t1, t2, p>> : h \in {"h","H"}, t1 \in {"t","T"}, t2 \in {"t","T"}, p \in {"p","P"}}
    /\ \/ <<t[5], t[6], t[7]>> = <<":","/","/">>
       \/ Len(t) >= 8 /\ t[5] \in {"s","S"} /\ <<t[6], t[7], t[8]>> = <<":","/","/">>

\* C11 as stated: for every input that begins with http:// or https:// in any
\* letter case, the output of normalize equals the input character for character.
C11_SchemeInputIdentity ==
    (outcome.kind = "normalized" /\ ~outcome.arg.none /\ SchemePrefixed(outcome.arg.text))
        => outcome.value = outcome.arg.text

\* C11, amended: for every input that begins with http:// or https:// in any
\* letter case, the output is the input without its trailing whitespace, hence
\* the input itself when it does not end in whitespace.
C11_SchemeInputStripped ==
    (outcome.kind = "normalized" /\ ~outcome.arg.none /\ SchemePrefixed(outcome.arg.text))
        => LET t == outcome.arg.text
               v == outcome.value
           IN  /\ Len(v) <= Len(t)
               /\ \A i \in 1..Len(v) : v[i] = t[i]
               /\ \A i \in (Len(v) + 1)..Len(t) : t[i] \in Whitespace
               /\ v # <<>> => v[Len(v)] \notin Whitespace

\* an input with a scheme and a trailing blank came back without the blank
C11_Witness ==
    /\ outcome.kind = "normalized"
    /\ outcome.arg = TextArg(HTTPS_PREFIX \o <<"a",".","i","o"," ">>)
    /\ outcome.value = HTTPS_PREFIX \o <<"a",".","i","o">>

\* the input as normalize reads it: without surrounding whitespace
TrimmedInput == Strip(or_empty(outcome.arg))

\* the position of the first "/" of the trimmed input, 0 when it has none
FirstSlash ==
    IF \E i \in DOMAIN TrimmedInput : TrimmedInput[i] = "/"
    THEN CHOOSE i \in DOMAIN TrimmedInput :
            TrimmedInput[i] = "/" /\ \A j \in 1..(i - 1) : TrimmedInput[j] # "/"
    ELSE 0

\* the host part: the text before the first "/", without surrounding whitespace
HostPart ==
    Strip(IF FirstSlash = 0 THEN TrimmedInput ELSE SubSeq(TrimmedInput, 1, FirstSlash - 1))

\* the remainder: the text from the first "/" on, empty without a "/"
Remainder ==
    IF FirstSlash = 0 THEN <<>> ELSE SubSeq(TrimmedInput, FirstSlash, Len(TrimmedInput))

HasDot(t) == \E i \in DOMAIN t : t[i] = "."

\* the host is in the exclusion set, letter case aside
Excluded(host) == \E x \in url_cfg.no_guess_hosts : Lower(x) = Lower(host)

\* normalize was called with a non-blank input that has no http(s) scheme
SchemelessCall ==
    /\ outcome.kind = "normalized"
    /\ TrimmedInput # <<>>
    /\ ~SchemePrefixed(TrimmedInput)

SCHEME_SEP == <<":","/","/">>
DOT_COM    == <<".","c","o","m">>

C14_ExclusionIgnoresCase ==
    (SchemelessCall /\ Excluded(HostPart))
        => outcome.value = url_cfg.default_scheme \o SCHEME_SEP \o HostPart \o Remainder

IsPort(t) == t # <<>> /\ \A i \in DOMAIN t : t[i] \in {"0","1","2","3","4","5","6","7","8","9"}

\* the host part is an excluded host name followed by ":" and a port
ExcludedWithPort ==
    \E x \in url_cfg.no_guess_hosts :
        /\ Len(HostPart) > Len(x) + 1
        /\ SubSeq(HostPart, 1, Len(x)) = x
        /\ HostPart[Len(x) + 1] = ":"
        /\ IsPort(SubSeq(HostPart, Len(x) + 2, Len(HostPart)))

\* C15: an input without a scheme whose host part is an excluded host name
\* followed by ":<port>" is normalized to default_scheme, "://" and the input,
\* with no ".com" after the port.
C15_ExcludedHostWithPort ==
    (SchemelessCall /\ ExcludedWithPort)
        => outcome.value = url_cfg.default_scheme \o SCHEME_SEP \o TrimmedInput

\* the argument is None, empty, or whitespace only
BlankArg(arg) == arg.none \/ \A i \in DOMAIN arg.text : arg.text[i] \in Whitespace

\* C16: in every configuration of scheme, guessing flag and exclusion set, an
\* input that is None, empty or whitespace only normalizes to the empty string,
\* and every other input normalizes to a non-empty string.
C16_BlankIffEmpty ==
    outcome.kind = "normalized" => (BlankArg(outcome.arg) <=> outcome.value = <<>>)

\* None was normalized to the empty string by a normalizer that guesses .com
C16_Witness ==
    /\ outcome.kind = "normalized"
    /\ outcome.arg = NoneArg
    /\ url_cfg.guess_com_if_no_dot
    /\ outcome.value = <<>>

\* C17: with guess_com_if_no_dot disabled, every non-blank input without a
\* scheme maps to default_scheme, "://", host part and remainder, whether or not
\* the host has a dot or is excluded: ".com" is never appended.
C17_GuessDisabled ==
    (SchemelessCall /\ ~url_cfg.guess_com_if_no_dot)
        => outcome.value = url_cfg.default_scheme \o SCHEME_SEP \o HostPart \o Remainder

\* example/path stayed https://example/path with guessing disabled and no exclusion
C17_Witness ==
    /\ outcome.kind = "normalized"
    /\ ~url_cfg.guess_com_if_no_dot
    /\ url_cfg.no_guess_hosts = {}
    /\ outcome.arg = TextArg(<<"e","x","a","m","p","l","e","/","p","a","t","h">>)
    /\ outcome.value = HTTPS_PREFIX \o <<"e","x","a","m","p","l","e","/","p","a","t","h">>

------------------------------------------------------------------------------
(* Further claims about the routes, checked under SpecWeb                  *)

\* C18: the configuration file is read once, at startup: no GET / and no POST
\* /run reads it again, so no request fails because the file went missing or
\* became unreadable after startup.
C18_ConfigReadOnce ==
    ~(resp.kind = "unhandled" /\ resp.error = "FileNotFoundError")

\* a step that writes the run-id mapping
RunsWritten == runs' # runs

\* C19: every step keeps every run_id of the mapping as a key; the mapping is
\* written only by a POST /run that returns a result with a run directory,
\* which is recorded under the run_id of the result; GET / and GET /download
\* leave the mapping as it is.
C19_RunsOnlyGrow ==
    [][ /\ \A k \in DOMAIN runs : k \in DOMAIN runs'
        /\ RunsWritten =>
              /\ req.via = "web"
              /\ outcome'.kind = "returned"
              /\ outcome'.result.run_dir # NoPath
              /\ DOMAIN runs' = DOMAIN runs \cup {outcome'.result.run_id}
              /\ runs'[outcome'.result.run_id] = outcome'.result.run_dir
              /\ \A k \in DOMAIN runs \ {outcome'.result.run_id} : runs'[k] = runs[k]
        /\ resp'.kind \in {"index", "download"} => runs' = runs ]_vars

\* two runs are recorded, and a GET / has been answered since
C19_Witness ==
    /\ Cardinality(DOMAIN runs) >= 2
    /\ resp.kind = "index"

------------------------------------------------------------------------------
(* Further claims about AnalysisService.run, checked under Spec            *)

\* the retried run completed in this step
RetryCompletes == pc = "attempt2" /\ proc'.kind = "completed"

\* C20: one call of run launches the external program at most twice: when the
\* retried run completes, whatever its exit code and stderr, nothing more is
\* launched and a result is returned, with status "failed" when the exit code
\* is not 0, also when stderr again holds an unknown-option message.
C20_RetryIsTerminal ==
    /\ [](Len(cmds) <= 2)
    /\ [][ RetryCompletes =>
              /\ cmds' = cmds
              /\ pc' = "idle"
              /\ outcome'.kind = "returned"
              /\ outcome'.result.exit_code = proc'.returncode
              /\ proc'.returncode # 0 => outcome'.result.status = "failed" ]_vars

\* the retried run again failed on an unknown option, and a failed result was returned
C20_Witness ==
    /\ Len(cmds) = 2
    /\ proc = Completed(2, <<>>, ERR_UNKNOWN_OPTION)
    /\ (req.extra_instructions # <<>> \/ req.instruction_preset # <<>>)
    /\ outcome.kind = "returned"
    /\ outcome.result.status = "failed"

\* the last executed attempt completed in this step: the first attempt when no
\* retry follows it, or the retry
LastAttemptCompletes ==
    /\ pc \in {"attempt1", "attempt2"}
    /\ proc'.kind = "completed"
    /\ pc' = "idle"

\* C21: within one call of run the newest-run-directory scan is made exactly
\* once when the call returns a result, in the step in which the last executed
\* attempt completes, and not at all otherwise: not before the first launch,
\* not between the first attempt and the retry, not when the call raises.
C21_OneScanAfterLastAttempt ==
    /\ [](/\ scans \in {0, 1}
          /\ scans = 1 <=> outcome.kind = "returned"
          /\ pc \in {"attempt1", "attempt2"} => scans = 0
          /\ outcome.kind = "raised" => scans = 0)
    /\ [][ scans' > scans => (scans = 0 /\ LastAttemptCompletes) ]_vars

\* the scan was made once, after a retry
C21_Witness ==
    /\ scans = 1
    /\ Len(cmds) = 2
    /\ outcome.kind = "returned"

------------------------------------------------------------------------------
(* Further claims about RunRepository, checked under SpecRepo              *)

\* the listing searched by the recorded call of _newest_run_dir_in
SearchedListing ==
    IF outcome.base = REPORTS_BASE
    THEN (IF fs.reports_exists THEN fs.reports ELSE <<>>)
    ELSE (IF fs.exe_exists THEN fs.exe ELSE <<>>)

\* the positions, in enumeration order, of the prefixed subdirectories of the
\* searched location whose modification time no other of them exceeds
NewestPositions ==
    LET l  == SearchedListing
        cs == {i \in DOMAIN l : l[i].kind = "dir" /\ HasRunPrefix(l[i].name)}
    IN  {i \in cs : \A j \in cs : l[j].mtime <= l[i].mtime}

\* C22 as stated: among the matching subdirectories of one location that share
\* the maximal modification time, the one enumerated last is returned.
C22_TieLastWins ==
    (outcome.kind = "newest_in" /\ NewestPositions # {})
        => \E i \in NewestPositions :
              /\ \A j \in NewestPositions : j <= i
              /\ outcome.run_dir = <<outcome.base, SearchedListing[i].name>>

\* C22, amended: among the matching subdirectories of one location that share
\* the maximal modification time, the one enumerated first is returned.
C22_TieFirstWins ==
    (outcome.kind = "newest_in" /\ NewestPositions # {})
        => \E i \in NewestPositions :
              /\ \A j \in NewestPositions : i <= j
              /\ outcome.run_dir = <<outcome.base, SearchedListing[i].name>>

\* two run directories of one location share the newest time, and the one
\* listed first was returned
C22_Witness ==
    /\ outcome.kind = "newest_in"
    /\ Cardinality(NewestPositions) = 2
    /\ \E i \in NewestPositions :
          /\ \A j \in NewestPositions : i <= j
          /\ outcome.run_dir = <<outcome.base, SearchedListing[i].name>>

------------------------------------------------------------------------------
(* Claims about the output tails, checked under SpecTail                   *)

\* the positions where a line of t ends: the last character of each line break
LineEnds(t) ==
    {i \in DOMAIN t : \/ t[i] = "\n"
                      \/ t[i] = "\r" /\ (i = Len(t) \/ t[i + 1] # "\n")}

\* the number of lines of t: a text that does not end in a line break has one more
NumLines(t) ==
    Cardinality(LineEnds(t)) + (IF t # <<>> /\ Len(t) \notin LineEnds(t) THEN 1 ELSE 0)

\* the position after the k-th line end of t, 1 for k = 0
LineStart(t, k) ==
    IF k = 0 THEN 1
    ELSE 1 + CHOOSE e \in LineEnds(t) : Cardinality({x \in LineEnds(t) : x <= e}) = k

\* line k of t, without its line break
LineOf(t, k) ==
    LET from == LineStart(t, k - 1)
        stop == IF k <= Cardinality(LineEnds(t)) THEN LineStart(t, k) - 1 ELSE Len(t) + 1
        brk  == IF stop > Len(t) THEN 0
                ELSE IF t[stop] = "\n" /\ stop > 1 /\ t[stop - 1] = "\r" THEN 2 ELSE 1
    IN  SubSeq(t, from, stop - brk - (IF stop > Len(t) THEN 1 ELSE 0))

\* lines a..b of t, with "\n" between them
RECURSIVE LinesJoined(_, _, _)
LinesJoined(t, a, b) ==
    IF a > b THEN <<>>
    ELSE IF a = b THEN LineOf(t, a)
    ELSE LineOf(t, a) \o <<"\n">> \o LinesJoined(t, a + 1, b)

\* C23 as stated: the tail is exactly the last 60 lines of the captured text in
\* their order, and the whole text when it has 60 lines or fewer, empty when
\* nothing was captured.
C23_TailIsWholeTextWhenShort ==
    outcome.kind = "tail" =>
        /\ NumLines(outcome.text) <= 60 => outcome.value = outcome.text
        /\ NumLines(outcome.text) > 60 =>
              outcome.value = LinesJoined(outcome.text, NumLines(outcome.text) - 59,
                                          NumLines(outcome.text))

\* C23, amended: the tail is the last 60 lines of the captured text (all its
\* lines when it has 60 or fewer), in their order, without their line breaks
\* and joined by "\n": it has no line break after its last line, and it is the
\* captured text itself exactly when that text has at most 60 lines, only "\n"
\* line breaks and none at its end. It is empty when nothing was captured.
C23_TailIsLastLinesJoined ==
    outcome.kind = "tail" =>
        LET t == outcome.text
            n == NumLines(t)
        IN  /\ outcome.value = LinesJoined(t, IF n > 60 THEN n - 59 ELSE 1, n)
            /\ t = <<>> => outcome.value = <<>>
            /\ outcome.value = t <=>
                  /\ n <= 60
                  /\ \A i \in DOMAIN t : t[i] # "\r"
                  /\ t = <<>> \/ t[Len(t)] # "\n"

\* 62 lines ending in a line break were captured and 60 lines are kept, the
\* first of them line 03, the last line 62 without its line break
C23_Witness ==
    /\ outcome.kind = "tail"
    /\ outcome.text = NumberedText(62, <<"\n">>, TRUE)
    /\ NumLines(outcome.value) = 60
    /\ SubSeq(outcome.value, 1, 2) = <<"0","3">>
    /\ SubSeq(outcome.value, Len(outcome.value) - 1, Len(outcome.value)) = <<"6","2">>

------------------------------------------------------------------------------
(* Frame of RunRepository, checked under SpecRepo                          *)

\* a call of find_newest_run_dir, _newest_run_dir_in or pick_outputs is made
RepositoryCall == outcome'.kind \in {"found", "newest_in", "picked"}

\* C24: find_newest_run_dir and pick_outputs only read the filesystem: whatever
\* the filesystem is, the directories, the files and their modification times
\* are the same after the call as before it.
C24_RepositoryReadsOnly ==
    [][ RepositoryCall =>
           /\ fs'.reports_exists = fs.reports_exists
           /\ fs'.exe_exists = fs.exe_exists
           /\ fs'.reports = fs.reports
           /\ fs'.exe = fs.exe ]_vars

\* find_newest_run_dir was called where reports_base is missing and the exe
\* directory holds a run directory: reports_base is still missing
C24_Witness ==
    /\ outcome.kind = "found"
    /\ outcome.run_dir # NoPath
    /\ ~fs.reports_exists
    /\ fs.exe # <<>>

------------------------------------------------------------------------------
(* Claims about the times of a result, checked under Spec                  *)

\* C25: the duration of a result is the time of the whole invocation: the start
\* it is counted from is the start of the first attempt, kept when the retry is
\* launched, and it ends at the completion instant taken after the last
\* attempt, from which run_id and generated_at are both derived.
C25_DurationSpansInvocation ==
    /\ [][ (pc = "attempt1" /\ pc' = "attempt2") => req'.started = req.started ]_vars
    /\ [](outcome.kind = "returned" =>
             /\ outcome.result.duration_seconds = outcome.result.generated_at - req.started
             /\ outcome.result.run_id = outcome.result.generated_at)

------------------------------------------------------------------------------
(* Claims about runs that follow one another, checked under SpecWebOld and Spec *)

\* a POST /run returns a result that names a run directory
RunRecorded ==
    /\ req.via = "web"
    /\ outcome'.kind = "returned"
    /\ outcome.kind # "returned"
    /\ outcome'.result.run_dir # NoPath

\* C26: two runs that each discovered a run directory get distinct run
\* identifiers, so that no entry of the run-id mapping is overwritten by
\* another request and a link rendered for one request keeps leading to the
\* directory that request discovered.
C26_RunIdsDistinct ==
    [][ /\ RunRecorded => outcome'.result.run_id \notin DOMAIN runs
        /\ \A k \in DOMAIN runs : runs'[k] = runs[k] ]_vars

\* the call returns a result that names a run directory
DirReported ==
    /\ pc \in {"attempt1", "attempt2"}
    /\ pc' = "idle"
    /\ outcome'.kind = "returned"
    /\ outcome'.result.run_dir # NoPath

\* C27: the run directory reported in a result was written by the invocation
\* the result describes: it was not there before the attempt that ended the
\* call was launched, unless the first attempt of this call wrote it; a run
\* that writes no run directory never reports one left by an earlier run.
C27_ReportedDirIsOwn ==
    [][ DirReported =>
           \/ ~Exists(fs, outcome'.result.run_dir)
           \/ pc = "attempt2" /\ Mtime(fs', outcome'.result.run_dir) >= req.started ]_vars

------------------------------------------------------------------------------
(* Claims about POST /run that records nothing, checked under SpecWeb      *)

\* a step in which analysis_service.run, called by POST /run, raises or returns
RunAnswered ==
    /\ req'.via = "web"
    /\ pc' = "idle"
    /\ outcome'.kind \in {"raised", "returned"}

AllLinksAbsent(generated) ==
    /\ generated.html = NoLink
    /\ generated.docx = NoLink
    /\ generated.pptx = NoLink
    /\ generated.md = NoLink

\* C28: a POST /run whose analysis raises, or whose result has no run directory,
\* leaves the mapping from run ids to directories exactly as it was; when the
\* result has no run directory the page is rendered with none of the four links
C28_NothingRecordedWithoutRunDir ==
    [][ RunAnswered =>
           /\ outcome'.kind = "raised" => runs' = runs
           /\ (outcome'.kind = "returned" /\ outcome'.result.run_dir = NoPath) =>
                  /\ runs' = runs
                  /\ resp'.kind = "page"
                  /\ AllLinksAbsent(resp'.generated) ]_vars

\* a POST /run has been answered with the page of a result without a run directory
C28_Witness ==
    /\ req.via = "web"
    /\ outcome.kind = "returned"
    /\ outcome.result.run_dir = NoPath
    /\ resp.kind = "page"
    /\ AllLinksAbsent(resp.generated)
    /\ runs = <<>>

------------------------------------------------------------------------------
(* normalize applied to its own output, checked under SpecNorm             *)

\* C29: with the default scheme http or https, normalize is idempotent: applied
\* to its own output it returns that output unchanged, for every input.
C29_NormalizeIdempotent ==
    (outcome.kind = "normalized" /\ url_cfg.default_scheme \in {<<"h","t","t","p">>, <<"h","t","t","p","s">>})
        => normalize(outcome.value) = outcome.value

\* an input without a scheme was rewritten under the scheme http, and the
\* rewritten text is left as it is by a second application
C29_Witness ==
    /\ outcome.kind = "normalized"
    /\ url_cfg.default_scheme = <<"h","t","t","p">>
    /\ TrimmedInput # <<>>
    /\ ~HasScheme(TrimmedInput)
    /\ outcome.value # or_empty(outcome.arg)
    /\ normalize(outcome.value) = outcome.value

------------------------------------------------------------------------------
(* The arguments POST /run passes on, over forms, presets and settings     *)

\* the forms posted: each field blank, whitespace or filled, with no preset, a
\* preset of the table, an id the table lacks, and the id 0
PostedForms ==
    {Form(c, b, f, id, key, extra) :
        c \in {<<>>, <<" ">>, ACME},
        b \in {<<>>, <<"b",".","i","o">>},
        f \in {<<>>, <<" ","i","n",".","p","d","f"," ">>},
        id \in {<<>>, <<"1">>, <<"2">>, <<"7">>, <<"0">>},
        key \in {<<>>, <<"r","i","s","k">>, <<"z","z">>},
        extra \in {<<>>, <<"b","e"," ","b","r","i","e","f">>}}

\* settings.extra_instructions: absent from the INI file, or set
SettingsExtras == {<<>>, <<"s","h","o","r","t">>}

\* run_analysis reads a form under the settings loaded, one in each behaviour
ReadForm(form, settings_extra) ==
    /\ outcome = NoOutcome
    /\ outcome' = [kind |-> "args", form |-> form, settings_extra |-> settings_extra,
                    args |-> run_analysis_call(form, settings_extra)]
    /\ UNCHANGED <<url_cfg, fs, clock, pc, req, cmds, proc, scans, resp, runs, ini>>

NextForm == \E form \in PostedForms, settings_extra \in SettingsExtras : ReadForm(form, settings_extra)

SpecForm == Init /\ [][NextForm]_vars

\* the active preset the form selects: the row of its preset_id, a number other
\* than 0
SelectedPreset ==
    LET id == Strip(outcome.form.preset_id)
    IN  IF IsDigits(id) /\ ToInt(id) # 0 THEN get_preset(ToInt(id)) ELSE NoPreset

\* the value used for a field: the form's when it is not blank, else the
\* selected preset's
FormThenPreset(form_value, preset_value) ==
    IF Strip(form_value) # <<>> THEN Strip(form_value) ELSE Strip(preset_value)

FreeTextUsed == FormThenPreset(outcome.form.extra_instructions, SelectedPreset.extra_instructions)

\* the text of the preset key used, then a blank line, then the free text used
InstructionsGiven ==
    LET key_text == PRESET_INSTRUCTIONS(outcome.args.p)
    IN  IF key_text # <<>> /\ FreeTextUsed # <<>>
        THEN key_text \o <<"\n","\n">> \o FreeTextUsed
        ELSE key_text \o FreeTextUsed

\* C30: in POST /run a non-blank form value of competitor, baseline, file,
\* instruction_preset and extra_instructions is the one used, the selected active
\* preset's value is used only when the form value is blank, and the default
\* extra instructions of the settings are used only when the text of the preset
\* key and the free text are both blank.
C30_FormThenPresetThenDefault ==
    outcome.kind = "args" =>
        LET f == outcome.form
            a == outcome.args
            p == SelectedPreset
        IN  /\ a.c = FormThenPreset(f.competitor, p.competitor)
            /\ a.b = FormThenPreset(f.baseline, p.baseline)
            /\ a.f = FormThenPreset(f.file, p.source_file_path)
            /\ a.p = FormThenPreset(f.instruction_preset, p.instruction_preset)
            /\ InstructionsGiven # <<>> => a.e = InstructionsGiven
            /\ InstructionsGiven = <<>> => a.e = outcome.settings_extra

\* a form with its own free text selects a preset that has free text too, under
\* settings with default instructions: the form's text is passed on, and the
\* preset's competitor, the form's being blank
C30_Witness ==
    /\ outcome.kind = "args"
    /\ outcome.form.preset_id = <<"2">>
    /\ Strip(outcome.form.competitor) = <<>>
    /\ outcome.form.instruction_preset = <<>>
    /\ outcome.form.extra_instructions = <<"b","e"," ","b","r","i","e","f">>
    /\ outcome.settings_extra # <<>>
    /\ outcome.args.c = <<"o","t","h","e","r">>
    /\ outcome.args.e = <<"b","e"," ","b","r","i","e","f">>

====
